---- MODULE Spec2Model ----
(***************************************************************************)
(* Model of the smart-waste telemetry pipeline of app.py and sensor.py:    *)
(* the polling thread (poll_sensors), the in-memory registry (BINS), the   *)
(* shared event queue (event_queue), the REST readers (get_single_level,   *)
(* get_all_bins), the manual override (simulate_level) and the SSE         *)
(* generators (stream.event_stream).                                       *)
(*                                                                         *)
(* Threads interleave between Python statements that touch shared state,   *)
(* so every read or write of a field of BINS and every queue operation is  *)
(* one step.  Program counters are named after the source line of app.py   *)
(* that the thread executes next.                                          *)
(*                                                                         *)
(* Units: a fill level is an integer number of tenths of a percent         *)
(* (75.0 % is 750); a time is an integer number of clock ticks, of which   *)
(* TicksPerSecond make one second.                                         *)
(***************************************************************************)
EXTENDS Integers, Sequences, FiniteSets, TLC

----------------------------------------------------------------------------
\* Bounds of the model.

\* poll cycles the poller runs (the code's loop is endless)
MaxCycles == 2
\* simulate requests served (the code serves any number)
MaxSim == 1
\* largest value the clock reaches, in ticks
MaxTime == 1
\* resolution of the clock: ticks per second (time.time() is a float)
TicksPerSecond == 2
\* SSE connections opened over the run
NumStreams == 2
\* largest calibration height, in cm, a call of the fill calculation is
\* given; the distances it is given go up to twice that
MaxHeight == 40

----------------------------------------------------------------------------
\* Configuration, app.py lines 17-33.

BIN_HEIGHT_CM == 40
ALERT_THRESHOLD == 80

\* Python's None, for a level or a time that is not known.
None == -1

\* The bin ids a configuration may register, in the order BINS would list
\* them.  The source registers bin_1 and invites further entries ("bin_2").
ConfigOrder == <<"bin_1", "bin_2">>

BinName(b) == IF b = "bin_1" THEN "Main Gate Bin" ELSE "Bin " \o b

\* An id no configuration registers.
UnregisteredId == "unknown_bin"

\* Levels a simulate request may carry, in tenths of a percent: the
\* route's <float:level> accepts any non-negative decimal, 50.0 as well as
\* 150.0, and line 152 stores what it is given.
SimLevels == {500, 1500}

\* The distance the sensor reports when its read succeeds, in cm
\* (2.0 .. max_distance): a bin that is 95.0% full.  A read may also fail.
Distances == {2}

----------------------------------------------------------------------------
\* sensor.py: UltrasonicSensor.get_fill_level_percent, lines 73-80.

Min(a, b) == IF a <= b THEN a ELSE b
Max(a, b) == IF a >= b THEN a ELSE b

\* round(x, 1) of the exact quotient num/den (den > 0, num >= 0), in tenths:
\* to the nearest tenth, a tie going to the even neighbour.
RoundTenths(num, den) ==
    LET q == num \div den
        r == num % den
    IN  IF 2 * r > den THEN q + 1
        ELSE IF 2 * r < den THEN q
        ELSE IF q % 2 = 0 THEN q ELSE q + 1

\* Mutant of get_fill_level_percent: neither the cap of line 75 nor the
\* clamp of line 79.
get_fill_level_percent_unclamped(dist, bin_height_cm) ==
    (1000 * (bin_height_cm - dist)) \div bin_height_cm

\* Lines 73-80, the distance in whole cm and the result in tenths.
get_fill_level_percent(dist, bin_height_cm) ==
    LET effective_dist == Min(dist, bin_height_cm)
        fill == RoundTenths(1000 * (bin_height_cm - effective_dist),
                            bin_height_cm)
    IN  Max(0, Min(1000, fill))

\* level >= ALERT_THRESHOLD, for a level in tenths of a percent
AtThreshold(level) == level >= ALERT_THRESHOLD * 10

\* int(timestamp): whole seconds of a time given in ticks
IntSeconds(t) == t \div TicksPerSecond

----------------------------------------------------------------------------
VARIABLES
    BINS,          \* the registry: bin id -> cached state
    event_queue,   \* the shared Queue, oldest entry first
    now,           \* the latest value time.time() has returned
    \* poll_sensors
    p_pc,          \* line the poller executes next
    p_i,           \* position of the for loop in BinOrder
    cycle,         \* number of the poll cycle in progress
    level,         \* local: the level read in this iteration
    timestamp,     \* local: the time taken in this iteration
    payload,       \* local: the event built in this iteration
    \* simulate_level (one request at a time)
    s_pc, s_bin_id, s_level, s_now, s_payload, s_resp, nsim,
    \* get_single_level / get_all_bins (one request at a time)
    r_pc, r_i, r_view,
    r_sims,        \* history: simulate requests returned before the query
    r_clean,       \* history: BINS not written since the query arrived
    r_prev,        \* history: the last response, until BINS is next written
    \* stream.event_stream, one generator per connection
    st_pc, st_i, st_snap, st_event, out,
    st_since,      \* history: entries put before the connection was opened
    \* history
    wr,            \* bin id -> which update wrote each cached field
    r_wr,          \* the writers of the fields in r_view
    st_wr,         \* the writers of the fields in st_snap
    nput,          \* number of entries ever put on event_queue
    liveAt,        \* entry number -> streams live when it was put
    cyc_upd,       \* bin id -> updates the poller completed in this cycle
    cyc_put,       \* bin id -> events the poller enqueued in this cycle
    \* one call of UltrasonicSensor.get_fill_level_percent
    f_dist,        \* local dist: what get_distance_cm returned, in cm
    f_height,      \* argument bin_height_cm
    f_fill         \* the value returned, None until the call returns

sharedVars == <<BINS, event_queue, now>>
pollVars   == <<p_pc, p_i, cycle, level, timestamp, payload>>
simVars    == <<s_pc, s_bin_id, s_level, s_now, s_payload, s_resp, nsim>>
readVars   == <<r_pc, r_i, r_view, r_sims, r_clean, r_prev>>
streamVars == <<st_pc, st_i, st_snap, st_event, out, st_since>>
histVars   == <<wr, r_wr, st_wr, nput, liveAt, cyc_upd, cyc_put>>
sensorVars == <<f_dist, f_height, f_fill>>
vars == <<sharedVars, pollVars, simVars, readVars, streamVars, histVars,
          sensorVars>>

\* The update that is the construction of BINS.
InitUpdate == <<"init", 0, 0>>
\* The poller's update of the bin at position i in cycle c.
PollUpdate(c, i) == <<"poll", c, i>>
\* The update made by the n-th simulate request.
SimUpdate(n) == <<"sim", n, 0>>

NoPayload ==
    [bin_id |-> "", name |-> "", level |-> None, is_alert |-> FALSE,
     timestamp |-> None]

\* What the queue holds: the payload and the number of its put.
NoEntry == [seq |-> 0, event |-> NoPayload]

NoView == [level |-> None, is_alert |-> FALSE, last_update |-> None]
NoWriters == [level |-> InitUpdate, is_alert |-> InitUpdate,
              last_update |-> InitUpdate]

\* No response to compare the next one with.
NoQuery == [route |-> "", body |-> <<>>]

\* app.py lines 23-36: BINS, registering the bins BinIds, and event_queue as
\* constructed, threads at their first statement, no request yet, and none
\* of the connections Streams opened yet.
InitState(BinIds, Streams) ==
    /\ BINS = [b \in BinIds |->
                 [name |-> BinName(b), height_cm |-> BIN_HEIGHT_CM,
                  last_level |-> None, last_update |-> None,
                  is_alert |-> FALSE]]
    /\ event_queue = <<>>
    /\ now = 0
    /\ p_pc = "l46" /\ p_i = 1 /\ cycle = 1
    /\ level = None /\ timestamp = None /\ payload = NoPayload
    /\ s_pc = "idle" /\ s_bin_id = "" /\ s_level = None /\ s_now = None
    /\ s_payload = NoPayload /\ s_resp = 0 /\ nsim = 0
    /\ r_pc = "idle" /\ r_i = 1
    /\ r_view = [b \in BinIds |-> NoView]
    /\ r_sims = 0
    /\ r_clean = FALSE
    /\ r_prev = NoQuery
    /\ st_pc = [s \in Streams |-> "none"]
    /\ st_i = [s \in Streams |-> 1]
    /\ st_snap = [s \in Streams |-> [b \in BinIds |-> NoView]]
    /\ st_event = [s \in Streams |-> NoEntry]
    /\ out = [s \in Streams |-> <<>>]
    /\ st_since = [s \in Streams |-> 0]
    /\ wr = [b \in BinIds |-> NoWriters]
    /\ r_wr = [b \in BinIds |-> NoWriters]
    /\ st_wr = [s \in Streams |-> [b \in BinIds |-> NoWriters]]
    /\ nput = 0
    /\ liveAt = <<>>
    /\ cyc_upd = [b \in BinIds |-> 0]
    /\ cyc_put = [b \in BinIds |-> 0]

\* The same, no call of the fill calculation being followed.
InitWith(BinIds, Streams) ==
    /\ InitState(BinIds, Streams)
    /\ f_dist = 0 /\ f_height = BIN_HEIGHT_CM /\ f_fill = None

\* The configuration of the source: bin_1 alone.
Init == InitWith({"bin_1"}, 1..NumStreams)

\* The configuration with a second bin added.
InitTwoBins == InitWith({"bin_1", "bin_2"}, 1..NumStreams)

\* The configuration of the source, one client connecting over the run.
InitOneStream == InitWith({"bin_1"}, {1})

\* The configuration of the source, two clients connecting over the run.
InitTwoStreams == InitWith({"bin_1"}, {1, 2})

\* The configuration of the source, and one call of get_fill_level_percent
\* with any distance the sensor may return and any calibration height.
InitFill ==
    /\ InitState({"bin_1"}, {1})
    /\ f_dist \in 0..(2 * MaxHeight)
    /\ f_height \in 1..MaxHeight
    /\ f_fill = None

\* The keys of BINS in insertion order, as BINS.items() yields them.
BinOrder == SelectSeq(ConfigOrder, LAMBDA b : b \in DOMAIN BINS)
BinIds == DOMAIN BINS

\* The connections of the run.
Streams == DOMAIN st_pc

----------------------------------------------------------------------------
\* Shared helpers.

\* A write of a field of BINS, as the history of the queries records it.
NoteWrite ==
    /\ r_clean' = FALSE
    /\ r_prev' = NoQuery

\* A stream is live once its snapshot has been sent, while its generator
\* is in the loop of lines 133-141.
Live(s) == st_pc[s] \in {"l135", "l137"}
LiveStreams == {s \in Streams : Live(s)}

\* Mutant of put_nowait: the entry is put at the head of the queue.
put_nowait_front(q, e) == <<[seq |-> nput + 1, event |-> e]>> \o q

\* Queue.put_nowait on Queue() (maxsize 0, never full): append at the tail.
put_nowait(q, e) == Append(q, [seq |-> nput + 1, event |-> e])

\* The effect of one put on the shared queue and on the history of puts.
Enqueue(e) ==
    /\ event_queue' = put_nowait(event_queue, e)
    /\ nput' = nput + 1
    /\ liveAt' = Append(liveAt, LiveStreams)

----------------------------------------------------------------------------
\* poll_sensors, app.py lines 40-73.

\* The bin of the current iteration of "for bin_id, info in BINS.items()".
p_bin == BinOrder[p_i]

\* Line 46, the read succeeds: the sensor reports a distance and
\* get_fill_level_percent converts it with the bin's height_cm.
poll_read_ok ==
    /\ p_pc = "l46"
    /\ \E dist \in Distances :
         level' = get_fill_level_percent(dist, BINS[p_bin].height_cm)
    /\ p_pc' = "l52"
    /\ UNCHANGED <<sharedVars, p_i, cycle, timestamp, payload, simVars,
                   readVars, streamVars, histVars, sensorVars>>

\* Mutant of poll_read_fail: the exception is not caught at line 47; it
\* reaches the handler of line 72 and the thread ends.
poll_read_fail_escapes ==
    /\ p_pc = "l46"
    /\ p_pc' = "l73"
    /\ UNCHANGED <<sharedVars, p_i, cycle, level, timestamp, payload, simVars,
                   readVars, streamVars, histVars, sensorVars>>

\* Lines 47-50, the read raises: the exception is caught and level = None.
poll_read_fail ==
    /\ p_pc = "l46"
    /\ level' = None
    /\ p_pc' = "l52"
    /\ UNCHANGED <<sharedVars, p_i, cycle, timestamp, payload, simVars,
                   readVars, streamVars, histVars, sensorVars>>

\* Line 52: timestamp = time.time().
poll_l52 ==
    /\ p_pc = "l52"
    /\ \E t \in now..MaxTime : now' = t /\ timestamp' = t
    /\ p_pc' = "l53"
    /\ UNCHANGED <<BINS, event_queue, p_i, cycle, level, payload, simVars,
                   readVars, streamVars, histVars, sensorVars>>

\* Line 53: info["last_level"] = level.
poll_l53 ==
    /\ p_pc = "l53"
    /\ BINS' = [BINS EXCEPT ![p_bin].last_level = level]
    /\ wr' = [wr EXCEPT ![p_bin].level = PollUpdate(cycle, p_i)]
    /\ p_pc' = "l54"
    /\ NoteWrite
    /\ UNCHANGED <<event_queue, now, p_i, cycle, level, timestamp, payload,
                   simVars, r_pc, r_i, r_view, r_sims, streamVars, r_wr,
                   st_wr, nput, liveAt, cyc_upd, cyc_put, sensorVars>>

\* Mutant of poll_l54: last_update is stored only when the read succeeded.
poll_l54_keeps_on_failure ==
    /\ p_pc = "l54"
    /\ IF level = None
         THEN BINS' = BINS /\ wr' = wr
         ELSE /\ BINS' = [BINS EXCEPT ![p_bin].last_update = timestamp]
              /\ wr' = [wr EXCEPT ![p_bin].last_update = PollUpdate(cycle, p_i)]
    /\ p_pc' = "l55"
    /\ NoteWrite
    /\ UNCHANGED <<event_queue, now, p_i, cycle, level, timestamp, payload,
                   simVars, r_pc, r_i, r_view, r_sims, streamVars, r_wr,
                   st_wr, nput, liveAt, cyc_upd, cyc_put, sensorVars>>

\* Line 54: info["last_update"] = timestamp.
poll_l54 ==
    /\ p_pc = "l54"
    /\ BINS' = [BINS EXCEPT ![p_bin].last_update = timestamp]
    /\ wr' = [wr EXCEPT ![p_bin].last_update = PollUpdate(cycle, p_i)]
    /\ p_pc' = "l55"
    /\ NoteWrite
    /\ UNCHANGED <<event_queue, now, p_i, cycle, level, timestamp, payload,
                   simVars, r_pc, r_i, r_view, r_sims, streamVars, r_wr,
                   st_wr, nput, liveAt, cyc_upd, cyc_put, sensorVars>>

\* Line 55: info["is_alert"] = (level is not None and level >= ALERT_THRESHOLD).
poll_l55 ==
    /\ p_pc = "l55"
    /\ BINS' = [BINS EXCEPT
                  ![p_bin].is_alert = (level # None /\ AtThreshold(level))]
    /\ wr' = [wr EXCEPT ![p_bin].is_alert = PollUpdate(cycle, p_i)]
    /\ cyc_upd' = [cyc_upd EXCEPT ![p_bin] = @ + 1]
    /\ p_pc' = "l58"
    /\ NoteWrite
    /\ UNCHANGED <<event_queue, now, p_i, cycle, level, timestamp, payload,
                   simVars, r_pc, r_i, r_view, r_sims, streamVars, r_wr,
                   st_wr, nput, liveAt, cyc_put, sensorVars>>

\* Lines 58-64: the payload; level and timestamp are the locals, is_alert is
\* read back from info (line 62).
poll_l58 ==
    /\ p_pc = "l58"
    /\ payload' = [bin_id |-> p_bin, name |-> BINS[p_bin].name,
                   level |-> level, is_alert |-> BINS[p_bin].is_alert,
                   timestamp |-> IntSeconds(timestamp)]
    /\ p_pc' = "l67"
    /\ UNCHANGED <<sharedVars, p_i, cycle, level, timestamp, simVars,
                   readVars, streamVars, histVars, sensorVars>>

\* Mutant of poll_l67: a blocking put on a queue of capacity one.
poll_l67_blocking ==
    /\ p_pc = "l67"
    /\ event_queue = <<>>
    /\ Enqueue(payload)
    /\ cyc_put' = [cyc_put EXCEPT ![p_bin] = @ + 1]
    /\ IF p_i < Len(BinOrder)
         THEN p_i' = p_i + 1 /\ p_pc' = "l46"
         ELSE p_i' = p_i /\ p_pc' = "l71"
    /\ level' = None /\ timestamp' = None /\ payload' = NoPayload
    /\ UNCHANGED <<BINS, now, cycle, simVars, readVars, streamVars, wr, r_wr,
                   st_wr, cyc_upd, sensorVars>>

\* Lines 66-69: event_queue.put_nowait(payload); then the next bin of the
\* for loop, or line 71 when the loop is over.  The locals are not read
\* again before they are assigned, and are forgotten here.
poll_l67 ==
    /\ p_pc = "l67"
    /\ Enqueue(payload)
    /\ cyc_put' = [cyc_put EXCEPT ![p_bin] = @ + 1]
    /\ IF p_i < Len(BinOrder)
         THEN p_i' = p_i + 1 /\ p_pc' = "l46"
         ELSE p_i' = p_i /\ p_pc' = "l71"
    /\ level' = None /\ timestamp' = None /\ payload' = NoPayload
    /\ UNCHANGED <<BINS, now, cycle, simVars, readVars, streamVars, wr, r_wr,
                   st_wr, cyc_upd, sensorVars>>

\* Line 71: time.sleep(POLL_INTERVAL), then the next turn of "while True".
poll_l71 ==
    /\ p_pc = "l71"
    /\ cycle < MaxCycles
    /\ cycle' = cycle + 1
    /\ p_i' = 1
    /\ p_pc' = "l46"
    /\ cyc_upd' = [b \in BinIds |-> 0]
    /\ cyc_put' = [b \in BinIds |-> 0]
    /\ UNCHANGED <<sharedVars, level, timestamp, payload, simVars, readVars,
                   streamVars, wr, r_wr, st_wr, nput, liveAt, sensorVars>>

poll_sensors ==
    \/ poll_read_ok \/ poll_read_fail
    \/ poll_l52 \/ poll_l53 \/ poll_l54 \/ poll_l55
    \/ poll_l58 \/ poll_l67 \/ poll_l71

----------------------------------------------------------------------------
\* sensor.py lines 67-80: one call of get_fill_level_percent returns.
call_get_fill_level_percent ==
    /\ f_fill = None
    /\ f_fill' = get_fill_level_percent(f_dist, f_height)
    /\ UNCHANGED <<sharedVars, pollVars, simVars, readVars, streamVars,
                   histVars, f_dist, f_height>>

----------------------------------------------------------------------------
\* simulate_level, app.py lines 147-166.

\* Mutant of UnknownBin: the check of line 149 is missing.
UnknownBin_unchecked(bin_id) == FALSE

\* Line 149: bin_id not in BINS.
UnknownBin(bin_id) == bin_id \notin DOMAIN BINS

\* A POST /api/simulate/<bin_id>/<level> arrives.
sim_request ==
    /\ s_pc = "idle"
    /\ nsim < MaxSim
    /\ \E b \in DOMAIN BINS \cup {UnregisteredId}, l \in SimLevels :
         s_bin_id' = b /\ s_level' = l
    /\ nsim' = nsim + 1
    /\ s_pc' = "l149"
    /\ UNCHANGED <<sharedVars, pollVars, s_now, s_payload, s_resp, readVars,
                   streamVars, histVars, sensorVars>>

\* Lines 149-151: an unknown id is answered 404; otherwise
\* info = BINS[bin_id], where a missing key raises KeyError, which the
\* framework answers with 500.
sim_l149 ==
    /\ s_pc = "l149"
    /\ IF UnknownBin(s_bin_id)
         THEN s_resp' = 404 /\ s_pc' = "ret"
         ELSE IF s_bin_id \in DOMAIN BINS
                THEN s_resp' = s_resp /\ s_pc' = "l152"
                ELSE s_resp' = 500 /\ s_pc' = "ret"
    /\ UNCHANGED <<sharedVars, pollVars, s_bin_id, s_level, s_now, s_payload,
                   nsim, readVars, streamVars, histVars, sensorVars>>

\* Mutant of sim_l152: the level is stored in every bin.
sim_l152_every_bin ==
    /\ s_pc = "l152"
    /\ BINS' = [b \in DOMAIN BINS |-> [BINS[b] EXCEPT !.last_level = s_level]]
    /\ wr' = [wr EXCEPT ![s_bin_id].level = SimUpdate(nsim)]
    /\ s_pc' = "l153"
    /\ NoteWrite
    /\ UNCHANGED <<event_queue, now, pollVars, s_bin_id, s_level, s_now,
                   s_payload, s_resp, nsim, r_pc, r_i, r_view, r_sims,
                   streamVars, r_wr, st_wr, nput, liveAt, cyc_upd, cyc_put,
                   sensorVars>>

\* Line 152: info["last_level"] = float(level).
sim_l152 ==
    /\ s_pc = "l152"
    /\ BINS' = [BINS EXCEPT ![s_bin_id].last_level = s_level]
    /\ wr' = [wr EXCEPT ![s_bin_id].level = SimUpdate(nsim)]
    /\ s_pc' = "l153"
    /\ NoteWrite
    /\ UNCHANGED <<event_queue, now, pollVars, s_bin_id, s_level, s_now,
                   s_payload, s_resp, nsim, r_pc, r_i, r_view, r_sims,
                   streamVars, r_wr, st_wr, nput, liveAt, cyc_upd, cyc_put,
                   sensorVars>>

\* Line 153, right-hand side: time.time().
sim_l153 ==
    /\ s_pc = "l153"
    /\ \E t \in now..MaxTime : now' = t /\ s_now' = t
    /\ s_pc' = "l153w"
    /\ UNCHANGED <<BINS, event_queue, pollVars, s_bin_id, s_level, s_payload,
                   s_resp, nsim, readVars, streamVars, histVars, sensorVars>>

\* Line 153, the store: info["last_update"] = <that time>.
sim_l153w ==
    /\ s_pc = "l153w"
    /\ BINS' = [BINS EXCEPT ![s_bin_id].last_update = s_now]
    /\ wr' = [wr EXCEPT ![s_bin_id].last_update = SimUpdate(nsim)]
    /\ s_pc' = "l154"
    /\ NoteWrite
    /\ UNCHANGED <<event_queue, now, pollVars, s_bin_id, s_level, s_now,
                   s_payload, s_resp, nsim, r_pc, r_i, r_view, r_sims,
                   streamVars, r_wr, st_wr, nput, liveAt, cyc_upd, cyc_put,
                   sensorVars>>

\* Line 154: info["is_alert"] = level >= ALERT_THRESHOLD.
sim_l154 ==
    /\ s_pc = "l154"
    /\ BINS' = [BINS EXCEPT ![s_bin_id].is_alert = AtThreshold(s_level)]
    /\ wr' = [wr EXCEPT ![s_bin_id].is_alert = SimUpdate(nsim)]
    /\ s_pc' = "l158"
    /\ NoteWrite
    /\ UNCHANGED <<event_queue, now, pollVars, s_bin_id, s_level, s_now,
                   s_payload, s_resp, nsim, r_pc, r_i, r_view, r_sims,
                   streamVars, r_wr, st_wr, nput, liveAt, cyc_upd, cyc_put,
                   sensorVars>>

\* Lines 155-158: bin_id, name and info.get("last_level") enter the payload.
sim_l158 ==
    /\ s_pc = "l158"
    /\ s_payload' = [s_payload EXCEPT !.bin_id = s_bin_id,
                                      !.name = BINS[s_bin_id].name,
                                      !.level = BINS[s_bin_id].last_level]
    /\ s_pc' = "l159"
    /\ UNCHANGED <<sharedVars, pollVars, s_bin_id, s_level, s_now, s_resp,
                   nsim, readVars, streamVars, histVars, sensorVars>>

\* Line 159: info["is_alert"] enters the payload.
sim_l159 ==
    /\ s_pc = "l159"
    /\ s_payload' = [s_payload EXCEPT !.is_alert = BINS[s_bin_id].is_alert]
    /\ s_pc' = "l160"
    /\ UNCHANGED <<sharedVars, pollVars, s_bin_id, s_level, s_now, s_resp,
                   nsim, readVars, streamVars, histVars, sensorVars>>

\* Line 160: int(info["last_update"]) enters the payload.
sim_l160 ==
    /\ s_pc = "l160"
    /\ s_payload' = [s_payload EXCEPT
                       !.timestamp = IntSeconds(BINS[s_bin_id].last_update)]
    /\ s_pc' = "l163"
    /\ UNCHANGED <<sharedVars, pollVars, s_bin_id, s_level, s_now, s_resp,
                   nsim, readVars, streamVars, histVars, sensorVars>>

\* Lines 162-166: event_queue.put_nowait(payload) and the {"ok": True} answer.
sim_l163 ==
    /\ s_pc = "l163"
    /\ Enqueue(s_payload)
    /\ s_resp' = 200
    /\ s_pc' = "ret"
    /\ UNCHANGED <<BINS, now, pollVars, s_bin_id, s_level, s_now, s_payload,
                   nsim, readVars, streamVars, wr, r_wr, st_wr, cyc_upd,
                   cyc_put, sensorVars>>

\* The response leaves; the handler's locals are gone.
sim_return ==
    /\ s_pc = "ret"
    /\ s_pc' = "idle"
    /\ s_bin_id' = "" /\ s_level' = None /\ s_now' = None
    /\ s_payload' = NoPayload /\ s_resp' = 0
    /\ UNCHANGED <<sharedVars, pollVars, nsim, readVars, streamVars, histVars,
                   sensorVars>>

simulate_level ==
    \/ sim_request \/ sim_l149 \/ sim_l152 \/ sim_l153
    \/ sim_l153w \/ sim_l154 \/ sim_l158 \/ sim_l159 \/ sim_l160 \/ sim_l163
    \/ sim_return

----------------------------------------------------------------------------
\* get_single_level (lines 76-89) and get_all_bins (lines 92-103).

\* first_key = next(iter(BINS))
first_key == BinOrder[1]

\* The simulate requests whose response has left.
SimsReturned == IF s_pc = "idle" THEN nsim ELSE nsim - 1

r_bin == BinOrder[r_i]

\* A GET /api/level arrives: lines 80-81.
single_request ==
    /\ r_pc = "idle"
    /\ r_pc' = "l85"
    /\ r_i' = 1
    /\ r_sims' = SimsReturned
    /\ r_clean' = TRUE
    /\ UNCHANGED <<sharedVars, pollVars, simVars, r_view, r_prev, streamVars,
                   histVars, sensorVars>>

\* Line 85: info.get("last_level").
single_l85 ==
    /\ r_pc = "l85"
    /\ r_view' = [r_view EXCEPT ![first_key].level = BINS[first_key].last_level]
    /\ r_wr' = [r_wr EXCEPT ![first_key].level = wr[first_key].level]
    /\ r_pc' = "l86"
    /\ UNCHANGED <<sharedVars, pollVars, simVars, r_i, r_sims, r_clean,
                   r_prev, streamVars, wr, st_wr, nput, liveAt, cyc_upd,
                   cyc_put, sensorVars>>

\* Line 86: info.get("is_alert").
single_l86 ==
    /\ r_pc = "l86"
    /\ r_view' = [r_view EXCEPT
                    ![first_key].is_alert = BINS[first_key].is_alert]
    /\ r_wr' = [r_wr EXCEPT ![first_key].is_alert = wr[first_key].is_alert]
    /\ r_pc' = "l87"
    /\ UNCHANGED <<sharedVars, pollVars, simVars, r_i, r_sims, r_clean,
                   r_prev, streamVars, wr, st_wr, nput, liveAt, cyc_upd,
                   cyc_put, sensorVars>>

\* Line 87: info.get("last_update"); the response is complete (line 89).
single_l87 ==
    /\ r_pc = "l87"
    /\ r_view' = [r_view EXCEPT
                    ![first_key].last_update = BINS[first_key].last_update]
    /\ r_wr' = [r_wr EXCEPT
                  ![first_key].last_update = wr[first_key].last_update]
    /\ r_pc' = "l89"
    /\ UNCHANGED <<sharedVars, pollVars, simVars, r_i, r_sims, r_clean,
                   r_prev, streamVars, wr, st_wr, nput, liveAt, cyc_upd,
                   cyc_put, sensorVars>>

\* A GET /api/bins arrives: lines 95-96.
all_request ==
    /\ r_pc = "idle"
    /\ r_pc' = "l99"
    /\ r_i' = 1
    /\ r_sims' = SimsReturned
    /\ r_clean' = TRUE
    /\ UNCHANGED <<sharedVars, pollVars, simVars, r_view, r_prev, streamVars,
                   histVars, sensorVars>>

\* Line 99: info.get("last_level") of the bin of this iteration.
all_l99 ==
    /\ r_pc = "l99"
    /\ r_view' = [r_view EXCEPT ![r_bin].level = BINS[r_bin].last_level]
    /\ r_wr' = [r_wr EXCEPT ![r_bin].level = wr[r_bin].level]
    /\ r_pc' = "l100"
    /\ UNCHANGED <<sharedVars, pollVars, simVars, r_i, r_sims, r_clean,
                   r_prev, streamVars, wr, st_wr, nput, liveAt, cyc_upd,
                   cyc_put, sensorVars>>

\* Mutant of all_l100: reading the alert flag acknowledges it,
\* info["is_alert"] = False.
all_l100_acknowledges ==
    /\ r_pc = "l100"
    /\ r_view' = [r_view EXCEPT ![r_bin].is_alert = BINS[r_bin].is_alert]
    /\ r_wr' = [r_wr EXCEPT ![r_bin].is_alert = wr[r_bin].is_alert]
    /\ BINS' = [BINS EXCEPT ![r_bin].is_alert = FALSE]
    /\ r_pc' = "l101"
    /\ UNCHANGED <<event_queue, now, pollVars, simVars, r_i, r_sims, r_clean,
                   r_prev, streamVars, wr, st_wr, nput, liveAt, cyc_upd,
                   cyc_put, sensorVars>>

\* Line 100: info.get("is_alert").
all_l100 ==
    /\ r_pc = "l100"
    /\ r_view' = [r_view EXCEPT ![r_bin].is_alert = BINS[r_bin].is_alert]
    /\ r_wr' = [r_wr EXCEPT ![r_bin].is_alert = wr[r_bin].is_alert]
    /\ r_pc' = "l101"
    /\ UNCHANGED <<sharedVars, pollVars, simVars, r_i, r_sims, r_clean,
                   r_prev, streamVars, wr, st_wr, nput, liveAt, cyc_upd,
                   cyc_put, sensorVars>>

\* Line 101: info.get("last_update"); then the next bin, or line 103.
all_l101 ==
    /\ r_pc = "l101"
    /\ r_view' = [r_view EXCEPT ![r_bin].last_update = BINS[r_bin].last_update]
    /\ r_wr' = [r_wr EXCEPT ![r_bin].last_update = wr[r_bin].last_update]
    /\ IF r_i < Len(BinOrder)
         THEN r_i' = r_i + 1 /\ r_pc' = "l99"
         ELSE r_i' = r_i /\ r_pc' = "l103"
    /\ UNCHANGED <<sharedVars, pollVars, simVars, r_sims, r_clean, r_prev,
                   streamVars, wr, st_wr, nput, liveAt, cyc_upd, cyc_put,
                   sensorVars>>

\* The completed response: jsonify(response) of line 89 for /api/level,
\* jsonify(result) of line 103 for /api/bins.
Response ==
    IF r_pc = "l89"
      THEN [route |-> "/api/level",
            body |-> <<first_key, BINS[first_key].name, r_view[first_key]>>]
      ELSE [route |-> "/api/bins",
            body |-> [k \in 1..Len(BinOrder) |->
                        <<BinOrder[k], BINS[BinOrder[k]].name,
                          r_view[BinOrder[k]]>>]]

\* Lines 89 and 103: the response leaves; the handler's locals are gone.
query_return ==
    /\ r_pc \in {"l89", "l103"}
    /\ r_pc' = "idle"
    /\ r_i' = 1
    /\ r_view' = [b \in BinIds |-> NoView]
    /\ r_wr' = [b \in BinIds |-> NoWriters]
    /\ r_sims' = 0
    /\ r_clean' = FALSE
    /\ r_prev' = IF r_clean THEN Response ELSE NoQuery
    /\ UNCHANGED <<sharedVars, pollVars, simVars, streamVars, wr, st_wr, nput,
                   liveAt, cyc_upd, cyc_put, sensorVars>>

get_single_level == single_request \/ single_l85 \/ single_l86 \/ single_l87

get_all_bins == all_request \/ all_l99 \/ all_l100 \/ all_l101

----------------------------------------------------------------------------
\* stream / event_stream, app.py lines 106-143.

\* Lines 106-109: json.dumps(event) framed as one SSE message.
sse_format(event) == <<"data: ", event, "\n\n">>

\* The dict an SSE frame carries.
Message(frame) == frame[2]

st_bin(s) == BinOrder[st_i[s]]

\* A GET /stream arrives and the server starts iterating event_stream().
\* Connections are numbered in the order they are opened.
stream_connect(s) ==
    /\ st_pc[s] = "none"
    /\ \A t \in Streams : t < s => st_pc[t] # "none"
    /\ st_pc' = [st_pc EXCEPT ![s] = "l125"]
    /\ st_i' = [st_i EXCEPT ![s] = 1]
    /\ st_since' = [st_since EXCEPT ![s] = nput]
    /\ UNCHANGED <<sharedVars, pollVars, simVars, readVars, st_snap, st_event,
                   out, histVars, sensorVars>>

\* Line 125: v["last_level"] of the bin the comprehension is at.
stream_l125(s) ==
    /\ st_pc[s] = "l125"
    /\ st_snap' = [st_snap EXCEPT
                     ![s][st_bin(s)].level = BINS[st_bin(s)].last_level]
    /\ st_wr' = [st_wr EXCEPT ![s][st_bin(s)].level = wr[st_bin(s)].level]
    /\ st_pc' = [st_pc EXCEPT ![s] = "l126"]
    /\ UNCHANGED <<sharedVars, pollVars, simVars, readVars, st_i, st_event,
                   out, wr, r_wr, nput, liveAt, cyc_upd, cyc_put, st_since,
                   sensorVars>>

\* Line 126: v["is_alert"].
stream_l126(s) ==
    /\ st_pc[s] = "l126"
    /\ st_snap' = [st_snap EXCEPT
                     ![s][st_bin(s)].is_alert = BINS[st_bin(s)].is_alert]
    /\ st_wr' = [st_wr EXCEPT
                   ![s][st_bin(s)].is_alert = wr[st_bin(s)].is_alert]
    /\ st_pc' = [st_pc EXCEPT ![s] = "l127"]
    /\ UNCHANGED <<sharedVars, pollVars, simVars, readVars, st_i, st_event,
                   out, wr, r_wr, nput, liveAt, cyc_upd, cyc_put, st_since,
                   sensorVars>>

\* Line 127: v["last_update"]; then the next bin, or the yield of line 130.
stream_l127(s) ==
    /\ st_pc[s] = "l127"
    /\ st_snap' = [st_snap EXCEPT
                     ![s][st_bin(s)].last_update = BINS[st_bin(s)].last_update]
    /\ st_wr' = [st_wr EXCEPT
                   ![s][st_bin(s)].last_update = wr[st_bin(s)].last_update]
    /\ IF st_i[s] < Len(BinOrder)
         THEN /\ st_i' = [st_i EXCEPT ![s] = @ + 1]
              /\ st_pc' = [st_pc EXCEPT ![s] = "l125"]
         ELSE /\ st_i' = [st_i EXCEPT ![s] = 1]
              /\ st_pc' = [st_pc EXCEPT ![s] = "l130"]
    /\ UNCHANGED <<sharedVars, pollVars, simVars, readVars, st_event, out, wr,
                   r_wr, nput, liveAt, cyc_upd, cyc_put, st_since,
                   sensorVars>>

\* The generator's local snapshot is not read again after line 130.
ForgetSnapshot(s) ==
    /\ st_snap' = [st_snap EXCEPT ![s] = [b \in BinIds |-> NoView]]
    /\ st_wr' = [st_wr EXCEPT ![s] = [b \in BinIds |-> NoWriters]]

\* Mutant of stream_l130: the snapshot is built but never yielded.
stream_l130_no_yield(s) ==
    /\ st_pc[s] = "l130"
    /\ st_pc' = [st_pc EXCEPT ![s] = "l135"]
    /\ ForgetSnapshot(s)
    /\ UNCHANGED <<sharedVars, pollVars, simVars, readVars, st_i, st_event,
                   out, wr, r_wr, nput, liveAt, cyc_upd, cyc_put, st_since,
                   sensorVars>>

\* Line 130: yield sse_format(snapshot), and the frame reaches the client.
stream_l130(s) ==
    /\ st_pc[s] = "l130"
    /\ out' = [out EXCEPT ![s] = Append(@,
                 sse_format([type |-> "snapshot", seq |-> 0,
                             body |-> st_snap[s]]))]
    /\ st_pc' = [st_pc EXCEPT ![s] = "l135"]
    /\ ForgetSnapshot(s)
    /\ UNCHANGED <<sharedVars, pollVars, simVars, readVars, st_i, st_event,
                   wr, r_wr, nput, liveAt, cyc_upd, cyc_put, st_since,
                   sensorVars>>

\* Line 130 with the client gone: the server cannot write the frame and
\* closes the generator; the GeneratorExit raised at the yield ends it.
stream_l130_exit(s) ==
    /\ st_pc[s] = "l130"
    /\ st_pc' = [st_pc EXCEPT ![s] = "closed"]
    /\ ForgetSnapshot(s)
    /\ UNCHANGED <<sharedVars, pollVars, simVars, readVars, st_i, st_event,
                   out, wr, r_wr, nput, liveAt, cyc_upd, cyc_put, st_since,
                   sensorVars>>

\* Mutant of AfterGet: the entry is read and stays on the queue.
AfterGet_peek(q) == q

\* Queue.get(): the oldest entry leaves the queue; blocks while it is empty.
CanGet(q) == Len(q) > 0
get(q) == Head(q)
AfterGet(q) == Tail(q)

\* Line 135: event = event_queue.get().
stream_l135(s) ==
    /\ st_pc[s] = "l135"
    /\ CanGet(event_queue)
    /\ st_event' = [st_event EXCEPT ![s] = get(event_queue)]
    /\ event_queue' = AfterGet(event_queue)
    /\ st_pc' = [st_pc EXCEPT ![s] = "l137"]
    /\ UNCHANGED <<BINS, now, pollVars, simVars, readVars, st_i, st_snap, out,
                   histVars, st_since, sensorVars>>

\* Lines 136-137: yield sse_format(wrapped), and the frame reaches the
\* client.  The local event is not read again.
stream_l137(s) ==
    /\ st_pc[s] = "l137"
    /\ out' = [out EXCEPT ![s] = Append(@,
                 sse_format([type |-> "update", seq |-> st_event[s].seq,
                             body |-> st_event[s].event]))]
    /\ st_pc' = [st_pc EXCEPT ![s] = "l135"]
    /\ st_event' = [st_event EXCEPT ![s] = NoEntry]
    /\ UNCHANGED <<sharedVars, pollVars, simVars, readVars, st_i, st_snap,
                   histVars, st_since, sensorVars>>

\* Lines 137-139 with the client gone: the GeneratorExit raised at the yield
\* is caught and the loop is left; the event taken at line 135 is lost.
stream_l137_exit(s) ==
    /\ st_pc[s] = "l137"
    /\ st_pc' = [st_pc EXCEPT ![s] = "closed"]
    /\ st_event' = [st_event EXCEPT ![s] = NoEntry]
    /\ UNCHANGED <<sharedVars, pollVars, simVars, readVars, st_i, st_snap,
                   out, histVars, st_since, sensorVars>>

event_stream(s) ==
    \/ stream_connect(s)
    \/ stream_l125(s) \/ stream_l126(s) \/ stream_l127(s)
    \/ stream_l130(s) \/ stream_l130_exit(s)
    \/ stream_l135(s) \/ stream_l137(s) \/ stream_l137_exit(s)

----------------------------------------------------------------------------
\* Specifications.

\* The whole program: poller, simulate, queries and streams.
Next ==
    \/ poll_sensors
    \/ simulate_level
    \/ get_single_level
    \/ get_all_bins
    \/ query_return
    \/ \E s \in Streams : event_stream(s)

Spec == Init /\ [][Next]_vars

\* The two writers of the registry: poller and simulate.
NextWriters ==
    \/ poll_sensors
    \/ simulate_level

SpecWriters == Init /\ [][NextWriters]_vars

\* The two writers over two bins.
SpecWritersTwoBins == InitTwoBins /\ [][NextWriters]_vars

\* The poller and the readers of the registry.
NextReaders ==
    \/ poll_sensors
    \/ get_single_level
    \/ get_all_bins
    \/ query_return

SpecReaders == Init /\ [][NextReaders]_vars

\* The registry with its writers and its readers.
NextRegistry ==
    \/ poll_sensors
    \/ simulate_level
    \/ get_single_level
    \/ get_all_bins
    \/ query_return

SpecRegistry == Init /\ [][NextRegistry]_vars

\* The fill calculation on its own.
SpecFill == InitFill /\ [][call_get_fill_level_percent]_vars

\* The poller over two bins.
SpecPoller == InitTwoBins /\ [][poll_sensors]_vars

\* The poller and the streams: the producer and the consumers of the queue.
NextStream ==
    \/ poll_sensors
    \/ \E s \in Streams : event_stream(s)

SpecStream == Init /\ [][NextStream]_vars

\* The manual override and two subscribers, the poller being asleep.
NextOverrideStream ==
    \/ simulate_level
    \/ \E s \in Streams : event_stream(s)

SpecOverrideStream == InitTwoStreams /\ [][NextOverrideStream]_vars

\* The poller and one subscriber.
SpecSubscriber == InitOneStream /\ [][NextStream]_vars

\* The same, the poller being a thread that keeps running.
SpecSubscriberFair == SpecSubscriber /\ WF_vars(poll_sensors)

----------------------------------------------------------------------------
\* Claims.

\* The entry numbers of the update frames stream s has sent, in order.
UpdateFrames(s) ==
    SelectSeq(out[s], LAMBDA f : Message(f).type = "update")
Received(s) == {Message(out[s][k]).seq : k \in 1..Len(out[s])} \ {0}

\* Every entry put so far has left the queue and no generator holds one
\* it has yet to yield.
Dispatched ==
    /\ event_queue = <<>>
    /\ \A s \in Streams : st_pc[s] # "l137"

\* C1 (as claimed): every event put on the queue reaches every stream that
\* was live when it was put and is still live: once all entries have been
\* dispatched, each such stream has sent it to its client.
C1_FanOut ==
    Dispatched =>
        \A n \in 1..nput : \A s \in liveAt[n] :
            Live(s) => n \in Received(s)

\* C2: on every stream the first frame is the snapshot and every later
\* frame is an update; no update frame precedes the snapshot.
C2_SnapshotFirst ==
    \A s \in Streams : \A k \in 1..Len(out[s]) :
        Message(out[s][k]).type = (IF k = 1 THEN "snapshot" ELSE "update")

\* C2 witness: a stream has sent, after its snapshot, an update that was
\* put on the queue before the stream was live (the publish raced with the
\* subscribe).
C2_Witness ==
    \E s \in Streams :
        /\ Len(out[s]) >= 2
        /\ Message(out[s][2]).type = "update"
        /\ s \notin liveAt[Message(out[s][2]).seq]

\* No update of the registry is in progress: the poller is at the top of
\* its for loop or asleep, and no simulate request is being handled.
NoUpdateInProgress == p_pc \in {"l46", "l71"} /\ s_pc = "idle"

AlertConsistent(b) ==
    BINS[b].is_alert =
        (BINS[b].last_level # None /\ AtThreshold(BINS[b].last_level))

\* C3 (as claimed): whenever no update is in progress, every bin's is_alert
\* equals (last_level is not None and last_level >= ALERT_THRESHOLD).
C3_AlertInvariant ==
    NoUpdateInProgress => \A b \in BinIds : AlertConsistent(b)

\* The three fields of a view were written by one and the same update.
OneWriter(w) == w.level = w.is_alert /\ w.is_alert = w.last_update

\* C4 (as claimed): every completed bin view (GET /api/level at line 89,
\* GET /api/bins at line 103, the stream snapshot at line 130) has its
\* three fields written by one and the same update.
C4_NoTornRead ==
    /\ r_pc = "l89" => OneWriter(r_wr[first_key])
    /\ r_pc = "l103" => \A b \in BinIds : OneWriter(r_wr[b])
    /\ \A s \in Streams :
         st_pc[s] = "l130" => \A b \in BinIds : OneWriter(st_wr[s][b])

\* The poller's three writes of an iteration whose sensor read failed.
FailedWrite(line, next) == p_pc = line /\ p_pc' = next /\ level = None

\* C5 (as claimed): when the sensor read of a bin fails, the poller stores
\* level None and is_alert False and, in a cycle that has a prior cycle,
\* leaves the bin's last_update as it was.
C5_FailKeepsLastUpdate ==
    [][/\ FailedWrite("l53", "l54") => BINS'[p_bin].last_level = None
       /\ FailedWrite("l54", "l55") /\ cycle > 1 =>
            BINS'[p_bin].last_update = BINS[p_bin].last_update
       /\ FailedWrite("l55", "l58") => BINS'[p_bin].is_alert = FALSE]_vars

\* C5 (amended): when the sensor read of a bin fails, the poller stores
\* level None and is_alert False, and sets the bin's last_update to the time
\* it took at line 52 of that iteration, as it does after a successful read.
C5_FailRefreshesLastUpdate ==
    [][/\ FailedWrite("l53", "l54") => BINS'[p_bin].last_level = None
       /\ FailedWrite("l54", "l55") =>
            /\ BINS'[p_bin].last_update = timestamp
            /\ timestamp \in 0..MaxTime
       /\ FailedWrite("l55", "l58") => BINS'[p_bin].is_alert = FALSE]_vars

\* C5 witness: in a cycle after the first the poller has completed the
\* update of a bin whose read failed; the bin holds None, False and the
\* time of this iteration.
C5_Witness ==
    /\ p_pc = "l58" /\ level = None /\ cycle > 1
    /\ BINS[p_bin].last_level = None
    /\ BINS[p_bin].is_alert = FALSE
    /\ BINS[p_bin].last_update = timestamp
    /\ timestamp > 0

\* C6: the polling thread never ends in the handler of line 73, and when a
\* cycle reaches its sleep every registered bin has had exactly one update
\* completed and exactly one event enqueued in that cycle, whichever reads
\* failed; unless the model's cycle bound is reached the next cycle starts.
C6_FailureIsolation ==
    /\ p_pc # "l73"
    /\ p_pc = "l71" =>
         /\ \A b \in BinIds : cyc_upd[b] = 1 /\ cyc_put[b] = 1
         /\ cycle < MaxCycles => ENABLED poll_l71

\* C6 witness: the second cycle is at its sleep, the read of bin_1 failed
\* in it and the read of bin_2 succeeded, and two events per bin are queued.
C6_Witness ==
    /\ p_pc = "l71" /\ cycle = 2
    /\ DOMAIN BINS = {"bin_1", "bin_2"}
    /\ BINS["bin_1"].last_level = None
    /\ BINS["bin_2"].last_level # None
    /\ Len(SelectSeq(event_queue, LAMBDA e : e.event.bin_id = "bin_1")) = 2
    /\ Len(SelectSeq(event_queue, LAMBDA e : e.event.bin_id = "bin_2")) = 2

\* C7: every poll cycle that starts reaches its sleep at line 71, whatever
\* the streams do.
C7_CycleReachesSleep == (p_pc = "l46" /\ p_i = 1) ~> (p_pc = "l71")

\* C7 witness: the second cycle has reached its sleep while the stream is
\* connected and has consumed nothing, the events of both cycles being
\* still queued.
C7_Witness ==
    /\ p_pc = "l71" /\ cycle = 2
    /\ \E s \in Streams : st_pc[s] = "l135" /\ Received(s) = {}
    /\ Len(event_queue) = 2

\* C8: the update frames of a stream that are for the same bin appear in
\* the order in which their events were put on the queue.
C8_NoReorder ==
    \A s \in Streams : \A j, k \in 1..Len(out[s]) :
        (/\ j < k
         /\ Message(out[s][j]).type = "update"
         /\ Message(out[s][k]).type = "update"
         /\ Message(out[s][j]).body.bin_id = Message(out[s][k]).body.bin_id)
        => Message(out[s][j]).seq < Message(out[s][k]).seq

\* C8 witness: one stream has sent two update frames for the same bin.
C8_Witness ==
    \E s \in Streams :
        /\ Len(UpdateFrames(s)) >= 2
        /\ Message(UpdateFrames(s)[1]).body.bin_id =
               Message(UpdateFrames(s)[2]).body.bin_id

\* No stream is connected: none ever was, or every one has gone away.
NoConsumer == \A s \in Streams : st_pc[s] \in {"none", "closed"}

\* The events of one poll cycle.
PendingBound == Len(BinOrder)

\* C9 (as claimed): with no stream connected the number of pending events
\* stays within a fixed bound, here the events of one poll cycle.
C9_PendingBounded == NoConsumer => Len(event_queue) <= PendingBound

\* A step of the simulate handler while it serves an unregistered id.
UnregisteredStep ==
    s_pc # "idle" /\ s_bin_id \notin DOMAIN BINS /\ s_pc' # s_pc

\* C10: a simulate request for an unregistered id is answered 404 and its
\* handler changes neither BINS (no field, no new key) nor event_queue.
C10_UnknownBinNoEffect ==
    [][UnregisteredStep =>
         /\ BINS' = BINS
         /\ event_queue' = event_queue
         /\ nput' = nput
         /\ \/ s_pc = "l149" /\ s_pc' = "ret" /\ s_resp' = 404
            \/ s_pc = "ret" /\ s_resp = 404 /\ s_pc' = "idle"]_vars

\* C10 witness: the handler has answered 404 to a request for an
\* unregistered id, while the poller has already published.
C10_Witness ==
    /\ s_pc = "ret" /\ s_resp = 404
    /\ s_bin_id \notin DOMAIN BINS
    /\ nput > 0

\* The bins whose view a completed query returns.
ViewedBins == IF r_pc = "l89" THEN {first_key} ELSE BinIds

\* The level of a view was stored by a simulate request whose response had
\* left before the query arrived.
SimulatedBefore(w) == w.level[1] = "sim" /\ w.level[2] <= r_sims

\* C11 (as claimed): a query that arrives after simulate(b, L) has returned
\* and still finds the simulated level returns level = L together with
\* is_alert = (L >= ALERT_THRESHOLD).
C11_SimulateThenQuery ==
    r_pc \in {"l89", "l103"} =>
        \A b \in ViewedBins :
            SimulatedBefore(r_wr[b]) =>
                /\ r_view[b].level \in SimLevels
                /\ r_view[b].is_alert = AtThreshold(r_view[b].level)

\* A step of a query handler.
QueryStep == r_pc' # r_pc

\* The step that completes a query while the response of the query before
\* it, on the same route, is still remembered: BINS was not written from
\* the arrival of that query on.
RepeatedQuery ==
    /\ r_pc \notin {"l89", "l103"}
    /\ r_pc' \in {"l89", "l103"}
    /\ r_prev'.route = Response'.route

\* C12: no step of GET /api/level or GET /api/bins changes BINS or
\* event_queue, and a query that follows another on the same route with no
\* write of BINS since that one arrived returns the same response.
C12_QueriesReadOnly ==
    [][/\ QueryStep =>
            /\ BINS' = BINS
            /\ event_queue' = event_queue
            /\ nput' = nput
       /\ RepeatedQuery => Response'.body = r_prev'.body]_vars

\* C12 witness: a second GET /api/bins has completed with no write of BINS
\* since the first arrived, after the poller has stored a level and queued
\* an event.
C12_Witness ==
    /\ r_pc = "l103"
    /\ r_prev.route = "/api/bins"
    /\ BINS[first_key].last_level # None
    /\ Len(event_queue) > 0

\* C13 (as claimed): every bin's cached level is None or lies within
\* 0.0 .. 100.0.
C13_FillRange ==
    \A b \in BinIds :
        \/ BINS[b].last_level = None
        \/ BINS[b].last_level \in 0..1000

\* C14: the fill computed for a distance d >= 0 and a height h > 0 lies
\* within 0.0 .. 100.0; d = 0 gives 100.0, d = h gives 0.0 and every d
\* beyond h, 2h among them, gives 0.0; with h = 40, d = 10 gives 75.0, which
\* is not an alert, and d = 2 gives 95.0, which is.
C14_FillCalculation ==
    f_fill # None =>
        /\ f_fill \in 0..1000
        /\ f_dist = 0 => f_fill = 1000
        /\ f_dist >= f_height => f_fill = 0
        /\ (f_height = 40 /\ f_dist = 10) =>
              f_fill = 750 /\ ~AtThreshold(f_fill)
        /\ (f_height = 40 /\ f_dist = 2) =>
              f_fill = 950 /\ AtThreshold(f_fill)

\* C14 witness: the call with the height of the source's bin and twice that
\* distance has returned 0.0.
C14_Witness ==
    /\ f_height = BIN_HEIGHT_CM
    /\ f_dist = 2 * f_height
    /\ f_fill = 0

\* A step of the poller, which is at bin p_bin.
PollerStep == p_pc' # p_pc

\* A step of the simulate handler after the request arrived.
SimulateStep == s_pc # "idle" /\ s_pc' # s_pc

\* The fields of a bin that are set at startup.
Static(info) == <<info.name, info.height_cm>>

\* C15: no step changes the set of registered ids or a bin's name or
\* height; a step of the poller's update of bin b, or of a simulate call
\* for b, leaves every other bin as it was.
C15_UpdateFrame ==
    [][/\ DOMAIN BINS' = DOMAIN BINS
       /\ \A b \in DOMAIN BINS : Static(BINS'[b]) = Static(BINS[b])
       /\ PollerStep =>
            \A b \in DOMAIN BINS \ {p_bin} : BINS'[b] = BINS[b]
       /\ SimulateStep =>
            \A b \in DOMAIN BINS \ {s_bin_id} : BINS'[b] = BINS[b]]_vars

\* C15 witness: a simulate call for bin_2 has stored its three fields while
\* bin_1 holds what the poller stored in its first cycle, and the poller is
\* in its second.
C15_Witness ==
    /\ DOMAIN BINS = {"bin_1", "bin_2"}
    /\ s_pc = "l158" /\ s_bin_id = "bin_2"
    /\ BINS["bin_2"].last_level = s_level
    /\ wr["bin_2"].is_alert = SimUpdate(nsim)
    /\ cycle = 2 /\ p_i = 1
    /\ wr["bin_1"].is_alert = PollUpdate(1, 1)
    /\ BINS["bin_1"].last_level # s_level

\* The flag of an event is the one its own level calls for.
SelfConsistent(event) ==
    event.is_alert = (event.level # None /\ AtThreshold(event.level))

\* C16 (as claimed): every event on the queue, put by the poller or by
\* simulate, carries is_alert = (its level is not None and its level >=
\* ALERT_THRESHOLD).
C16_EventSelfConsistent ==
    \A k \in 1..Len(event_queue) : SelfConsistent(event_queue[k].event)

\* The events queued for bin b, oldest first.
EventsFor(b) == SelectSeq(event_queue, LAMBDA e : e.event.bin_id = b)

\* The event most recently queued for bin b.
LastEventFor(b) == EventsFor(b)[Len(EventsFor(b))].event

\* C17 (as claimed): whenever no update is in progress, the event most
\* recently queued for a bin carries the level and the is_alert the bin
\* holds.
C17_EventStateAgreement ==
    NoUpdateInProgress =>
        \A b \in BinIds :
            EventsFor(b) # <<>> =>
                /\ LastEventFor(b).level = BINS[b].last_level
                /\ LastEventFor(b).is_alert = BINS[b].is_alert

\* The snapshot stream s sent as its first frame, bin id -> view.
SnapshotOf(s) == Message(out[s][1]).body

\* An update frame of stream s is fresh: its event was put after s
\* connected, and its timestamp is not older, in whole seconds, than the
\* last_update the snapshot of s reported for its bin.
Fresh(s, msg) ==
    /\ msg.seq > st_since[s]
    /\ LET seen == SnapshotOf(s)[msg.body.bin_id].last_update
       IN  seen # None => msg.body.timestamp >= IntSeconds(seen)

\* C18 (as claimed): every update frame a stream sends after its snapshot
\* is fresh; no event put before the stream connected is replayed to it.
C18_NoStaleUpdate ==
    \A s \in Streams : \A k \in 2..Len(out[s]) :
        Message(out[s][k]).type = "update" => Fresh(s, Message(out[s][k]))

\* The places that hold entry n: positions of the queue, generators that
\* took it and have yet to yield it, frames sent to a client.
Holders(n) ==
    {<<"queue", k>> : k \in {j \in 1..Len(event_queue) :
                                event_queue[j].seq = n}}
    \cup {<<"held", s>> : s \in {t \in Streams : st_event[t].seq = n}}
    \cup UNION {{<<"sent", s, k>> : k \in {j \in 1..Len(out[s]) :
                                             Message(out[s][j]).seq = n}} :
                s \in Streams}

\* C19: every entry ever put is in at most one place: on the queue, or
\* taken by one generator, or sent once on one stream; so no event reaches
\* two streams and none reaches a stream twice.
C19_AtMostOnce == \A n \in 1..nput : Cardinality(Holders(n)) <= 1

\* C19 witness: an event put while both streams were live has been sent on
\* one of them, and the other is still live and has sent its snapshot only.
C19_Witness ==
    \E s, t \in Streams :
        /\ s # t
        /\ Len(out[s]) = 2 /\ Message(out[s][2]).type = "update"
        /\ liveAt[Message(out[s][2]).seq] = {s, t}
        /\ st_pc[t] = "l135" /\ Len(out[t]) = 1

\* C20 (as claimed): no step makes a bin's last_update smaller than it
\* was (None, never updated, counting as smaller than any time).
C20_MonotoneTimestamps ==
    [][\A b \in DOMAIN BINS :
         BINS'[b].last_update >= BINS[b].last_update]_vars

====
